---------------------------- MODULE Spec2Model ----------------------------
(***************************************************************************)
(* A model of src/src/stats/stats.py: the statistics script that cross-    *)
(* references a PeaTMOSS database (tables paper, model_to_paper) with an   *)
(* OpenAlex database (tables works, cites).                                *)
(*                                                                         *)
(* A Python str is a sequence of one-character strings; SQL NULL / Python  *)
(* None is the value None below, which is no str.  A table is a sequence   *)
(* of rows in scan order.  A raised exception is a record [type, at]       *)
(* naming the exception and the function whose statement raised it.        *)
(***************************************************************************)
EXTENDS Integers, Sequences, FiniteSets, TLC

VARIABLES
    paper,             \* PeaTMOSS table paper: rows [title, url]
    modelToPaper,      \* PeaTMOSS table model_to_paper: rows [paper_id]
    works,             \* OpenAlex table works: rows [oa_id, doi, title]
    cites,             \* OpenAlex table cites: rows [id, reference]
    missing,           \* names of the tables the database files do not hold
    worksColumns,      \* column names of works as the table declares them
    defaults,          \* the pre-computed values imported from src.stats
    chunkSize,         \* rows per DataFrame of _createDFGeneratorFromSQL
    emptyFrame,        \* pandas build: an empty chunked result yields one empty frame
    op,                \* the function being executed
    arg,               \* its str argument, where it takes one
    returnDefault,     \* its returnDefault argument, where it takes one
    pc,                \* "start", "loop", "cites", "done" or "failed"
    pos,               \* rows the first DataFrame generator has handed out
    yielded,           \* DataFrames the first generator has handed out
    citesPos,          \* rows oaCitesDFs has handed out
    citesYielded,      \* DataFrames oaCitesDFs has handed out
    count,             \* the running count of a chunk loop
    pmDF,              \* the reference frame built from PeaTMOSS (arxivPMDF, pmDF)
    relevantWorksDFs,  \* frames kept by the works loop
    oaWorksDF,         \* their concatenation
    relevantCitesDFs,  \* frames kept by the cites loop
    ret,               \* the value returned, NoValue until the function returns
    err,               \* the exception that ended the function, NoError if none
    printed            \* the statistics main has printed, in order

tables == <<paper, modelToPaper, works, cites, missing, worksColumns>>

build == <<defaults, chunkSize, emptyFrame>>

call == <<op, arg, returnDefault>>

loop == <<pos, yielded, citesPos, citesYielded, count, pmDF, relevantWorksDFs,
          oaWorksDF, relevantCitesDFs>>

vars == <<tables, build, call, loop, pc, ret, err, printed>>

-----------------------------------------------------------------------------
(* Values *)

\* None / NULL: a one-element sequence whose element is no character, so it
\* differs from every str and can be compared with any of them.
None == <<"None">>

NoValue == [none |-> TRUE]

NoError == [type |-> "", at |-> ""]

Raise(type, at) == [type |-> type, at |-> at]

Min(a, b) == IF a < b THEN a ELSE b

-----------------------------------------------------------------------------
(* str methods *)

UpperLetters ==
    <<"A","B","C","D","E","F","G","H","I","J","K","L","M",
      "N","O","P","Q","R","S","T","U","V","W","X","Y","Z">>

LowerLetters ==
    <<"a","b","c","d","e","f","g","h","i","j","k","l","m",
      "n","o","p","q","r","s","t","u","v","w","x","y","z">>

Whitespace == {" ", "\t", "\n", "\r", "\f"}

\* str.lower on one character
LowerChar(c) ==
    IF \E i \in 1..26 : UpperLetters[i] = c
    THEN LowerLetters[CHOOSE i \in 1..26 : UpperLetters[i] = c]
    ELSE c

\* str.lower
Lower(s) == [i \in 1..Len(s) |-> LowerChar(s[i])]

RECURSIVE LStrip(_)
\* str.lstrip()
LStrip(s) ==
    IF s # <<>> /\ Head(s) \in Whitespace THEN LStrip(Tail(s)) ELSE s

RECURSIVE RStrip(_)
\* str.rstrip()
RStrip(s) ==
    IF s # <<>> /\ s[Len(s)] \in Whitespace
    THEN RStrip(SubSeq(s, 1, Len(s) - 1))
    ELSE s

\* str.strip()
Strip(s) == RStrip(LStrip(s))

\* s.startswith(p)
StartsWith(s, p) == Len(s) >= Len(p) /\ SubSeq(s, 1, Len(p)) = p

\* p occurs in s (the Python expression p in s)
Contains(s, p) ==
    \E i \in 0..(Len(s) - Len(p)) : SubSeq(s, i + 1, i + Len(p)) = p

RECURSIVE Replace(_, _, _)
\* s.replace(old, new): every non-overlapping occurrence of old, left to right
Replace(s, old, new) ==
    IF Len(s) < Len(old) THEN s
    ELSE IF StartsWith(s, old)
         THEN new \o Replace(SubSeq(s, Len(old) + 1, Len(s)), old, new)
         ELSE <<Head(s)>> \o Replace(Tail(s), old, new)

\* One pattern character of a regular expression against one character:
\* "." matches any character but a newline, a plain character matches itself.
RegexCharMatches(p, c) == IF p = "." THEN c # "\n" ELSE p = c

\* re.search(pat, s) for a pattern whose only metacharacter is "."
RegexSearch(pat, s) ==
    \E i \in 0..(Len(s) - Len(pat)) :
        \A j \in 1..Len(pat) : RegexCharMatches(pat[j], s[i + j])

-----------------------------------------------------------------------------
(* The two literals of _convertToArXivDOI *)

\* "https://arxiv.org/abs/"
ArxivURLPrefix ==
    <<"h","t","t","p","s",":","/","/","a","r","x","i","v",".","o","r","g",
      "/","a","b","s","/">>

\* "10.48550/arxiv."
ArxivDOIPrefix ==
    <<"1","0",".","4","8","5","5","0","/","a","r","x","i","v",".">>


-----------------------------------------------------------------------------
(* Helpers of stats.py *)

\* _convertToArXivDOI(arxivURL) for a str argument
convertToArXivDOI(arxivURL) == Replace(arxivURL, ArxivURLPrefix, ArxivDOIPrefix)

\* _standardizeText(text) for a str argument
standardizeText(text) == Lower(Strip(text))

\* Series.apply(f) raises AttributeError when an element is None: both
\* helpers call a str method on their argument.
ApplyRaises(column) == \E i \in 1..Len(column) : column[i] = None

\* A query on a table the database file does not hold fails in sqlite3;
\* pandas reports it as DatabaseError.
QueryError(at) == Raise("DatabaseError", at)

Ok(v) == [err |-> NoError, val |-> v]

Failed(e) == [err |-> e, val |-> NoValue]

\* pmDF[pmDF["url"].str.contains("10.48550/arxiv.")]: str.contains takes its
\* argument as a regular expression (regex=True is the default)
IsArXivDOI(url) == RegexSearch(ArxivDOIPrefix, url)

\* pm_IdentifyPapersPublishedInArXiv(pmDB)
pm_IdentifyPapersPublishedInArXiv(rows) ==
    IF "paper" \in missing THEN Failed(QueryError("_createDFFromSQL"))
    ELSE IF ApplyRaises([i \in 1..Len(rows) |-> rows[i].url])
    THEN Failed(Raise("AttributeError", "_convertToArXivDOI"))
    ELSE LET converted == [i \in 1..Len(rows) |->
                             [title |-> rows[i].title,
                              url |-> convertToArXivDOI(rows[i].url)]]
             IsRowArXiv(r) == IsArXivDOI(r.url)
         IN  Ok(SelectSeq(converted, IsRowArXiv))

-----------------------------------------------------------------------------
(* Inputs *)

MaxSegments == 3

\* The pieces URLs are put together from
URLSegments == {ArxivURLPrefix, ArxivDOIPrefix, <<"1">>, <<"x">>, <<"A">>, <<" ">>}

RECURSIVE SegmentStrings(_)
\* Every str made of at most n pieces
SegmentStrings(n) ==
    IF n = 0 THEN {<<>>}
    ELSE LET shorter == SegmentStrings(n - 1)
         IN  shorter \cup {s \o g : s \in shorter, g \in URLSegments}

\* "https://arxiv.org/abs/1"
URLArxiv1 == ArxivURLPrefix \o <<"1">>

\* "https://arxiv.org/abs/A"
URLArxivA == ArxivURLPrefix \o <<"A">>

\* "e/https://arxiv.org/abs/1": the arXiv prefix inside another URL
URLInner == <<"e", "/">> \o ArxivURLPrefix \o <<"1">>

\* "10x48550/arxiv/1": the DOI prefix with other characters for its dots
URLDots == <<"1","0","x","4","8","5","5","0","/","a","r","x","i","v","/","1">>

\* "e/x": a URL of another site
URLOther == <<"e", "/", "x">>

TitleA == <<"A">>

MaxPapers == 2

\* works as the queries of stats.py name its columns
DeclaredColumns == {"oa_id", "doi", "title"}

RECURSIVE Tables(_, _)
\* Every table of at most n rows drawn from rowSet
Tables(rowSet, n) ==
    IF n = 0 THEN {<<>>}
    ELSE LET shorter == Tables(rowSet, n - 1)
         IN  shorter \cup {Append(t, r) : t \in shorter, r \in rowSet}

PaperRows(titles, urls) == {[title |-> t, url |-> u] : t \in titles, u \in urls}

\* "10.48550/arxiv.1"
DOIArxiv1 == ArxivDOIPrefix \o <<"1">>

\* " 10.48550/ARXIV.1": the same DOI as OpenAlex may spell it
DOIPaddedUpper ==
    <<" ","1","0",".","4","8","5","5","0","/","A","R","X","I","V",".","1">>

\* "10.48550/arxiv.a"
DOIArxivLowerA == ArxivDOIPrefix \o <<"a">>

TitlePaddedLowerA == <<" ", "a">>

TitleC == <<"c">>

MaxWorks == 3

WorkRows(ids, dois, titles) ==
    {[oa_id |-> w, doi |-> d, title |-> t] : w \in ids, d \in dois, t \in titles}

\* Two citations of W1 and one of W2
CitesSample ==
    <<[id |-> 1, reference |-> <<"W1">>], [id |-> 2, reference |-> <<"W2">>],
      [id |-> 3, reference |-> <<"W1">>]>>

\* Some chunked query of the called function has no rows: the one case in
\* which the two pandas builds differ, so emptyFrame is varied there only
EmptyResult ==
    \/ works = <<>>
    \/ cites = <<>> /\ op \in {"oapm_CountCitationsOfArXivPMPapers", "main"}

\* works with a column declared under another spelling: sqlite3 names a
\* result column as the table declares it, whatever the query writes
ColumnsRenamed(from, to) == (DeclaredColumns \ {from}) \cup {to}

-----------------------------------------------------------------------------
(* What every specification starts a call from *)

\* No statement of the called function has run yet
NotStarted ==
    /\ pc = "start"
    /\ pos = 0 /\ yielded = 0 /\ citesPos = 0 /\ citesYielded = 0
    /\ count = 0
    /\ pmDF = <<>> /\ relevantWorksDFs = <<>> /\ oaWorksDF = <<>>
    /\ relevantCitesDFs = <<>>
    /\ ret = NoValue /\ err = NoError /\ printed = <<>>

UnitDefaults ==
    [OA_DOI_COUNT |-> 1, OA_OAID_COUNT |-> 1, OA_CITATION_COUNT |-> 1,
     OAPM_ARXIV_PM_PAPERS_IN_OA |-> 1]

Return(v) == pc' = "done" /\ ret' = v /\ err' = NoError

Throw(e) == pc' = "failed" /\ err' = e /\ ret' = NoValue

Finish(r) == IF r.err = NoError THEN Return(r.val) ELSE Throw(r.err)

-----------------------------------------------------------------------------
(* SpecPM: the PeaTMOSS helpers, each called once *)

InitPM ==
    /\ NotStarted
    /\ modelToPaper = <<>> /\ works = <<>> /\ cites = <<>>
    /\ missing = {} /\ worksColumns = DeclaredColumns
    /\ defaults = UnitDefaults /\ chunkSize = 1
    /\ emptyFrame = FALSE
    /\ returnDefault = FALSE
    /\ op \in {"_convertToArXivDOI", "_standardizeText",
               "pm_IdentifyPapersPublishedInArXiv"}
    /\ IF op = "pm_IdentifyPapersPublishedInArXiv"
       THEN /\ arg = None
            /\ paper \in Tables(PaperRows({TitleA},
                           {URLArxiv1, URLInner, URLDots, URLOther, None}),
                           MaxPapers)
       ELSE /\ arg \in SegmentStrings(MaxSegments) \cup {None}
            /\ paper = <<>>

Call_convertToArXivDOI ==
    /\ op = "_convertToArXivDOI" /\ pc = "start"
    /\ IF arg = None
       THEN Throw(Raise("AttributeError", "_convertToArXivDOI"))
       ELSE Return(convertToArXivDOI(arg))
    /\ UNCHANGED <<tables, build, call, loop, printed>>

Call_standardizeText ==
    /\ op = "_standardizeText" /\ pc = "start"
    /\ IF arg = None
       THEN Throw(Raise("AttributeError", "_standardizeText"))
       ELSE Return(standardizeText(arg))
    /\ UNCHANGED <<tables, build, call, loop, printed>>

Call_pm_IdentifyPapersPublishedInArXiv ==
    /\ op = "pm_IdentifyPapersPublishedInArXiv" /\ pc = "start"
    /\ Finish(pm_IdentifyPapersPublishedInArXiv(paper))
    /\ UNCHANGED <<tables, build, call, loop, printed>>

NextPM ==
    \/ Call_convertToArXivDOI
    \/ Call_standardizeText
    \/ Call_pm_IdentifyPapersPublishedInArXiv

SpecPM == InitPM /\ [][NextPM]_vars

\* C4: _convertToArXivDOI follows the prefix rule: a url that starts with
\* "https://arxiv.org/abs/" has only that leading prefix replaced by
\* "10.48550/arxiv.", and any other url is returned unchanged.
C4_PrefixRule ==
    (op = "_convertToArXivDOI" /\ pc = "done") =>
        ret = IF StartsWith(arg, ArxivURLPrefix)
              THEN ArxivDOIPrefix
                   \o SubSeq(arg, Len(ArxivURLPrefix) + 1, Len(arg))
              ELSE arg

\* C5: pm_IdentifyPapersPublishedInArXiv returns exactly the rows whose
\* derived url contains the literal substring "10.48550/arxiv.".
C5_LiteralSubstring ==
    (op = "pm_IdentifyPapersPublishedInArXiv" /\ pc = "done") =>
        LET derived == [i \in 1..Len(paper) |->
                          [title |-> paper[i].title,
                           url |-> convertToArXivDOI(paper[i].url)]]
            HasLiteral(r) == Contains(r.url, ArxivDOIPrefix)
        IN  ret = SelectSeq(derived, HasLiteral)

-----------------------------------------------------------------------------
(* The query layer *)

RECURSIVE Distinct(_)
\* SELECT DISTINCT: each value once, in the order of its first row
Distinct(rows) ==
    IF rows = <<>> THEN <<>>
    ELSE LET front == Distinct(SubSeq(rows, 1, Len(rows) - 1))
             last == rows[Len(rows)]
         IN  IF \E i \in 1..Len(front) : front[i] = last
             THEN front
             ELSE Append(front, last)

\* "SELECT DISTINCT doi FROM works"
SelectDistinctDoi(rows) ==
    Distinct([i \in 1..Len(rows) |-> [doi |-> rows[i].doi]])

\* "SELECT oa_id, title FROM works"
SelectOaIdTitle(rows) ==
    [i \in 1..Len(rows) |-> [oa_id |-> rows[i].oa_id, title |-> rows[i].title]]

\* "SELECT reference FROM cites"
SelectReference(rows) ==
    [i \in 1..Len(rows) |-> [reference |-> rows[i].reference]]

\* _createDFGeneratorFromSQL: whether the generator has another DataFrame
\* after handing out `done` rows in `handed` frames
HasNextFrame(rows, done, handed) ==
    \/ done < Len(rows)
    \/ Len(rows) = 0 /\ emptyFrame /\ handed = 0

\* _createDFGeneratorFromSQL: the DataFrame it hands out next, chunkSize rows
\* or the rows that are left
NextFrame(rows, done) ==
    SubSeq(rows, done + 1, Min(done + chunkSize, Len(rows)))

\* The values of one column of a frame
Column(df, key) == [i \in 1..Len(df) |-> df[i][key]]

-----------------------------------------------------------------------------
(* The matcher: the body of the chunk loops *)

\* The loop body with a frame that lacks the key column skipped
StandardizeAndMatch_skipsFrame(df, key, reference, at) ==
    IF key \notin worksColumns THEN Ok(<<>>)
    ELSE IF ApplyRaises(Column(df, key))
    THEN Failed(Raise("AttributeError", "_standardizeText"))
    ELSE LET std == [i \in 1..Len(df) |->
                       [df[i] EXCEPT ![key] = standardizeText(@)]]
             InReference(r) ==
                 \E j \in 1..Len(reference) : reference[j] = r[key]
         IN  Ok(SelectSeq(std, InReference))

\* df[key] = df[key].apply(_standardizeText); df[df[key].isin(reference)]
\* in the function named `at`
StandardizeAndMatch(df, key, reference, at) ==
    IF key \notin worksColumns THEN Failed(Raise("KeyError", at))
    ELSE IF ApplyRaises(Column(df, key))
    THEN Failed(Raise("AttributeError", "_standardizeText"))
    ELSE LET std == [i \in 1..Len(df) |->
                       [df[i] EXCEPT ![key] = standardizeText(@)]]
             InReference(r) ==
                 \E j \in 1..Len(reference) : reference[j] = r[key]
         IN  Ok(SelectSeq(std, InReference))

\* The count assigned with = where the code has +=
Accumulate_overwrites(running, matched) == Len(matched)

\* count += <matching rows>.shape[0]
Accumulate(running, matched) == running + Len(matched)

RECURSIVE Concat(_)
\* pandas.concat(objs=frames, ignore_index=True) of a non-empty list
Concat(frames) ==
    IF frames = <<>> THEN <<>> ELSE Head(frames) \o Concat(Tail(frames))

\* The tally with every kept value counted once, whatever the number of its
\* rows
ValueCounts_deduplicated(column) ==
    [v \in {column[i] : i \in 1..Len(column)} \ {None} |-> 1]

\* Series.value_counts(): each value of the column with the number of its rows
ValueCounts(column) ==
    [v \in {column[i] : i \in 1..Len(column)} \ {None} |->
        Cardinality({i \in 1..Len(column) : column[i] = v})]

-----------------------------------------------------------------------------
(* oapm_CountPMArXivPapersInOA *)

\* lines 309-321: the default, or arxivPMDF and the generator oaDFs
CountPMArXivPapersInOA_Start ==
    /\ op = "oapm_CountPMArXivPapersInOA" /\ pc = "start"
    /\ LET arxivPMDF == pm_IdentifyPapersPublishedInArXiv(paper)
       IN  IF returnDefault
           THEN Return(defaults.OAPM_ARXIV_PM_PAPERS_IN_OA) /\ UNCHANGED loop
           ELSE IF arxivPMDF.err # NoError
           THEN Throw(arxivPMDF.err) /\ UNCHANGED loop
           ELSE IF "works" \in missing
           THEN Throw(QueryError("_createDFGeneratorFromSQL")) /\ UNCHANGED loop
           ELSE /\ pc' = "loop"
                /\ pmDF' = arxivPMDF.val
                /\ count' = 0
                /\ UNCHANGED <<pos, yielded, citesPos, citesYielded,
                               relevantWorksDFs, oaWorksDF, relevantCitesDFs,
                               ret, err>>
    /\ UNCHANGED <<tables, build, call, printed>>

\* lines 327-330: one iteration of the loop over oaDFs
CountPMArXivPapersInOA_Chunk ==
    /\ op = "oapm_CountPMArXivPapersInOA" /\ pc = "loop"
    /\ LET rows == SelectDistinctDoi(works)
           df == NextFrame(rows, pos)
           matched == StandardizeAndMatch(df, "doi", Column(pmDF, "url"),
                                          "oapm_CountPMArXivPapersInOA")
       IN  /\ HasNextFrame(rows, pos, yielded)
           /\ pos' = pos + Len(df)
           /\ yielded' = yielded + 1
           /\ IF matched.err # NoError
              THEN Throw(matched.err) /\ UNCHANGED count
              ELSE /\ count' = Accumulate(count, matched.val)
                   /\ UNCHANGED <<pc, ret, err>>
    /\ UNCHANGED <<tables, build, call, printed, citesPos, citesYielded, pmDF,
                   relevantWorksDFs, oaWorksDF, relevantCitesDFs>>

\* line 332: the generator is exhausted
CountPMArXivPapersInOA_Return ==
    /\ op = "oapm_CountPMArXivPapersInOA" /\ pc = "loop"
    /\ ~HasNextFrame(SelectDistinctDoi(works), pos, yielded)
    /\ Return(count)
    /\ UNCHANGED <<tables, build, call, loop, printed>>

-----------------------------------------------------------------------------
(* oapm_CountCitationsOfArXivPMPapers *)

\* lines 339-355: pmDF with its titles standardized, and the two generators
CountCitations_Start ==
    /\ op = "oapm_CountCitationsOfArXivPMPapers" /\ pc = "start"
    /\ LET arxiv == pm_IdentifyPapersPublishedInArXiv(paper)
       IN  IF arxiv.err # NoError
           THEN Throw(arxiv.err) /\ UNCHANGED pmDF
           ELSE IF ApplyRaises(Column(arxiv.val, "title"))
           THEN Throw(Raise("AttributeError", "_standardizeText"))
                /\ UNCHANGED pmDF
           ELSE IF "works" \in missing \/ "cites" \in missing
           THEN Throw(QueryError("_createDFGeneratorFromSQL"))
                /\ UNCHANGED pmDF
           ELSE /\ pc' = "loop"
                /\ pmDF' = [i \in 1..Len(arxiv.val) |->
                              [arxiv.val[i] EXCEPT
                                  !.title = standardizeText(@)]]
                /\ UNCHANGED <<ret, err>>
    /\ UNCHANGED <<tables, build, call, printed, pos, yielded, citesPos,
                   citesYielded, count, relevantWorksDFs, oaWorksDF,
                   relevantCitesDFs>>

\* lines 359-362: one iteration of the loop over oaWorksDFs
CountCitations_WorksChunk ==
    /\ op = "oapm_CountCitationsOfArXivPMPapers" /\ pc = "loop"
    /\ LET rows == SelectOaIdTitle(works)
           df == NextFrame(rows, pos)
           matched == StandardizeAndMatch(df, "title", Column(pmDF, "title"),
                                          "oapm_CountCitationsOfArXivPMPapers")
       IN  /\ HasNextFrame(rows, pos, yielded)
           /\ pos' = pos + Len(df)
           /\ yielded' = yielded + 1
           /\ IF matched.err # NoError
              THEN Throw(matched.err) /\ UNCHANGED relevantWorksDFs
              ELSE /\ relevantWorksDFs' = Append(relevantWorksDFs, matched.val)
                   /\ UNCHANGED <<pc, ret, err>>
    /\ UNCHANGED <<tables, build, call, printed, citesPos, citesYielded, count,
                   pmDF, oaWorksDF, relevantCitesDFs>>

\* lines 364-367: pandas.concat raises ValueError on an empty list
CountCitations_ConcatWorks ==
    /\ op = "oapm_CountCitationsOfArXivPMPapers" /\ pc = "loop"
    /\ ~HasNextFrame(SelectOaIdTitle(works), pos, yielded)
    /\ IF relevantWorksDFs = <<>>
       THEN Throw(Raise("ValueError", "oapm_CountCitationsOfArXivPMPapers"))
            /\ UNCHANGED oaWorksDF
       ELSE /\ oaWorksDF' = Concat(relevantWorksDFs)
            /\ pc' = "cites"
            /\ UNCHANGED <<ret, err>>
    /\ UNCHANGED <<tables, build, call, printed, pos, yielded, citesPos,
                   citesYielded, count, pmDF, relevantWorksDFs,
                   relevantCitesDFs>>

\* lines 371-373: one iteration of the loop over oaCitesDFs
CountCitations_CitesChunk ==
    /\ op = "oapm_CountCitationsOfArXivPMPapers" /\ pc = "cites"
    /\ LET rows == SelectReference(cites)
           df == NextFrame(rows, citesPos)
           IsCited(r) ==
               \E j \in 1..Len(oaWorksDF) : oaWorksDF[j].oa_id = r.reference
       IN  /\ HasNextFrame(rows, citesPos, citesYielded)
           /\ citesPos' = citesPos + Len(df)
           /\ citesYielded' = citesYielded + 1
           /\ IF "oa_id" \notin worksColumns
              THEN Throw(Raise("KeyError",
                               "oapm_CountCitationsOfArXivPMPapers"))
                   /\ UNCHANGED relevantCitesDFs
              ELSE /\ relevantCitesDFs' =
                          Append(relevantCitesDFs, SelectSeq(df, IsCited))
                   /\ UNCHANGED <<pc, ret, err>>
    /\ UNCHANGED <<tables, build, call, printed, pos, yielded, count, pmDF,
                   relevantWorksDFs, oaWorksDF>>

\* lines 375-377: the tally of the kept citations
CountCitations_Return ==
    /\ op = "oapm_CountCitationsOfArXivPMPapers" /\ pc = "cites"
    /\ ~HasNextFrame(SelectReference(cites), citesPos, citesYielded)
    /\ IF relevantCitesDFs = <<>>
       THEN Throw(Raise("ValueError", "oapm_CountCitationsOfArXivPMPapers"))
       ELSE Return(ValueCounts(Column(Concat(relevantCitesDFs), "reference")))
    /\ UNCHANGED <<tables, build, call, loop, printed>>

-----------------------------------------------------------------------------
(* The scalar queries *)

\* cursor.fetchone(): <<>> stands for None, <<row>> for the first row
FetchOne(rows) == IF rows = <<>> THEN <<>> ELSE <<Head(rows)>>

\* _runOneValueSQLQuery(db, query): a query on a table the file does not
\* hold raises in db.execute, any other result of fetchone is returned
runOneValueSQLQuery(table, rows) ==
    IF table \in missing
    THEN Failed(Raise("OperationalError", "_runOneValueSQLQuery"))
    ELSE Ok(FetchOne(rows))

\* <result of _runOneValueSQLQuery>[0] in the function named `at`:
\* subscripting None raises TypeError
FirstValue(fetched, at) ==
    IF fetched.err # NoError THEN fetched
    ELSE IF fetched.val = <<>> THEN Failed(Raise("TypeError", at))
    ELSE Ok(fetched.val[1][1])

\* The values of a column that are not NULL, as a set
DistinctValues(column) == {column[i] : i \in 1..Len(column)} \ {None}

\* "SELECT COUNT(DISTINCT oa_id) FROM works": always one row
SelectCountDistinctOaId(rows) ==
    << <<Cardinality(DistinctValues(Column(rows, "oa_id")))>> >>

\* "SELECT COUNT(DISTINCT paper_id) FROM model_to_paper": always one row
SelectCountDistinctPaperId(rows) ==
    << <<Cardinality(DistinctValues(Column(rows, "paper_id")))>> >>

\* "SELECT id FROM cites ORDER BY id DESC LIMIT 1": the row of the greatest
\* id, no row when the table is empty
SelectLastId(rows) ==
    IF rows = <<>> THEN <<>>
    ELSE LET ids == {rows[i].id : i \in 1..Len(rows)}
         IN  << <<CHOOSE m \in ids : \A n \in ids : n <= m>> >>

\* oa_CountPapersByOAID(oaDB, returnDefault)
oa_CountPapersByOAID(byDefault) ==
    IF byDefault THEN Ok(defaults.OA_OAID_COUNT)
    ELSE FirstValue(runOneValueSQLQuery("works",
                                        SelectCountDistinctOaId(works)),
                    "oa_CountPapersByOAID")

\* oa_CountCitations(oaDB, returnDefault)
oa_CountCitations(byDefault) ==
    IF byDefault THEN Ok(defaults.OA_CITATION_COUNT)
    ELSE FirstValue(runOneValueSQLQuery("cites", SelectLastId(cites)),
                    "oa_CountCitations")

\* pm_CountPapersByID(pmDB)
pm_CountPapersByID ==
    FirstValue(runOneValueSQLQuery("model_to_paper",
                                   SelectCountDistinctPaperId(modelToPaper)),
               "pm_CountPapersByID")

\* a / b in the function named `at`; the quotient is kept as a fraction
Divide(a, b, at) ==
    IF b = 0 THEN Failed(Raise("ZeroDivisionError", at))
    ELSE Ok([num |-> a, den |-> b])

\* oa_ProportionOfValidPapers(oaIDCount, oaDOICount)
oa_ProportionOfValidPapers(oaIDCount, oaDOICount) ==
    Divide(oaDOICount, oaIDCount, "oa_ProportionOfValidPapers")

\* oapm_ProportionOfPMPapersInOA(oaPapers, pmPapers)
oapm_ProportionOfPMPapersInOA(oaPapers, pmPapers) ==
    Divide(pmPapers, oaPapers, "oapm_ProportionOfPMPapersInOA")

-----------------------------------------------------------------------------
(* oa_CountPapersByDOI *)

\* df["doi"].replace(to_replace=" ", value=None): the elements equal to
\* to_replace become None, no other element changes
ReplaceWithNone(column, toReplace) ==
    [i \in 1..Len(column) |->
        IF column[i] = toReplace THEN None ELSE column[i]]

\* df.dropna(inplace=True); df.shape[0] for a frame of one column
RowsAfterDropNA(column) ==
    Cardinality({i \in 1..Len(column) : column[i] # None})

\* lines 151-156: the default, or the generator dfs
CountPapersByDOI_Start ==
    /\ op = "oa_CountPapersByDOI" /\ pc = "start"
    /\ IF returnDefault
       THEN Return(defaults.OA_DOI_COUNT) /\ UNCHANGED count
       ELSE IF "works" \in missing
       THEN Throw(QueryError("_createDFGeneratorFromSQL")) /\ UNCHANGED count
       ELSE pc' = "loop" /\ count' = 0 /\ UNCHANGED <<ret, err>>
    /\ UNCHANGED <<tables, build, call, printed, pos, yielded, citesPos,
                   citesYielded, pmDF, relevantWorksDFs, oaWorksDF,
                   relevantCitesDFs>>

\* lines 162-166: one iteration of the loop over dfs
CountPapersByDOI_Chunk ==
    /\ op = "oa_CountPapersByDOI" /\ pc = "loop"
    /\ LET rows == SelectDistinctDoi(works)
           df == NextFrame(rows, pos)
       IN  /\ HasNextFrame(rows, pos, yielded)
           /\ pos' = pos + Len(df)
           /\ yielded' = yielded + 1
           /\ IF "doi" \notin worksColumns
              THEN Throw(Raise("KeyError", "oa_CountPapersByDOI"))
                   /\ UNCHANGED count
              ELSE /\ count' = count + RowsAfterDropNA(
                                   ReplaceWithNone(Column(df, "doi"), <<" ">>))
                   /\ UNCHANGED <<pc, ret, err>>
    /\ UNCHANGED <<tables, build, call, printed, citesPos, citesYielded, pmDF,
                   relevantWorksDFs, oaWorksDF, relevantCitesDFs>>

\* line 168: the generator is exhausted
CountPapersByDOI_Return ==
    /\ op = "oa_CountPapersByDOI" /\ pc = "loop"
    /\ ~HasNextFrame(SelectDistinctDoi(works), pos, yielded)
    /\ Return(count)
    /\ UNCHANGED <<tables, build, call, loop, printed>>

-----------------------------------------------------------------------------
(* SpecCount: the counts of one database, each called once *)

Call_oa_CountPapersByOAID ==
    /\ op = "oa_CountPapersByOAID" /\ pc = "start"
    /\ Finish(oa_CountPapersByOAID(returnDefault))
    /\ UNCHANGED <<tables, build, call, loop, printed>>

Call_oa_CountCitations ==
    /\ op = "oa_CountCitations" /\ pc = "start"
    /\ Finish(oa_CountCitations(returnDefault))
    /\ UNCHANGED <<tables, build, call, loop, printed>>

Call_pm_CountPapersByID ==
    /\ op = "pm_CountPapersByID" /\ pc = "start"
    /\ Finish(pm_CountPapersByID)
    /\ UNCHANGED <<tables, build, call, loop, printed>>

\* "10.1/a b": a DOI with a space in it
DOISpaced == <<"1","0",".","1","/","a"," ","b">>

\* " ": a DOI that is one space
DOIBlank == <<" ">>

MaxId == 3

\* cites tables whose ids are distinct, in any scan order
CitesTables(n) ==
    {t \in Tables({[id |-> k, reference |-> <<"W1">>] : k \in 1..MaxId}, n) :
        \A i, j \in 1..Len(t) : i # j => t[i].id # t[j].id}

\* A table the file does not hold has no rows
MissingOrEmpty(table, rows) ==
    missing \in IF rows = <<>> THEN {{}, {table}} ELSE {{}}

InitCount ==
    /\ NotStarted
    /\ arg = None
    /\ paper = <<>>
    /\ defaults = UnitDefaults
    /\ returnDefault \in BOOLEAN
    /\ op \in {"oa_CountPapersByDOI", "oa_CountPapersByOAID",
               "oa_CountCitations", "pm_CountPapersByID"}
    /\ works \in
         IF returnDefault THEN {<<>>}
         ELSE IF op = "oa_CountPapersByDOI"
         THEN Tables(WorkRows({<<"W1">>},
                              {DOIArxiv1, DOISpaced, DOIBlank, None},
                              {TitleA}), MaxWorks)
         ELSE IF op = "oa_CountPapersByOAID"
         THEN Tables(WorkRows({<<"W1">>, <<"W2">>, None}, {DOIArxiv1},
                              {TitleA}), MaxWorks)
         ELSE {<<>>}
    /\ cites \in
         IF op = "oa_CountCitations" /\ ~returnDefault
         THEN CitesTables(MaxId) ELSE {<<>>}
    /\ modelToPaper \in
         IF op = "pm_CountPapersByID" /\ ~returnDefault
         THEN Tables({[paper_id |-> k] : k \in {<<"P1">>, <<"P2">>, None}},
                     MaxPapers)
         ELSE {<<>>}
    /\ IF op = "oa_CountPapersByDOI" /\ ~returnDefault
       THEN /\ chunkSize \in 1..MaxWorks
            /\ worksColumns \in
                 {DeclaredColumns, ColumnsRenamed("doi", "DOI")}
            /\ emptyFrame \in IF EmptyResult THEN BOOLEAN ELSE {FALSE}
       ELSE /\ chunkSize = 1
                    /\ worksColumns = DeclaredColumns
            /\ emptyFrame = FALSE
    /\ IF returnDefault THEN missing = {}
       ELSE IF op = "oa_CountCitations" THEN MissingOrEmpty("cites", cites)
       ELSE IF op = "pm_CountPapersByID"
       THEN MissingOrEmpty("model_to_paper", modelToPaper)
       ELSE MissingOrEmpty("works", works)

NextCount ==
    \/ CountPapersByDOI_Start
    \/ CountPapersByDOI_Chunk
    \/ CountPapersByDOI_Return
    \/ Call_oa_CountPapersByOAID
    \/ Call_oa_CountCitations
    \/ Call_pm_CountPapersByID

SpecCount == InitCount /\ [][NextCount]_vars

\* C6: a scalar query that yields no row fails at the scalar query itself:
\* oa_CountCitations on an empty cites table ends with an error raised in
\* _runOneValueSQLQuery, not with one raised where the caller subscripts
\* the result.
C6_ZeroRowsFailInQueryLayer ==
    (op = "oa_CountCitations" /\ ~returnDefault /\ pc # "start"
         /\ cites = <<>> /\ "cites" \notin missing) =>
        /\ pc = "failed"
        /\ err.at = "_runOneValueSQLQuery"

\* C7: oa_CountPapersByDOI returns the number of distinct non-null doi
\* values of works that hold no space.
C7_SpacedDoisExcluded ==
    (op = "oa_CountPapersByDOI" /\ ~returnDefault /\ pc = "done") =>
        ret = Cardinality(
                {d \in DistinctValues(Column(works, "doi")) :
                    \A i \in 1..Len(d) : d[i] # " "})

\* C10: oa_CountCitations returns the number of rows of cites.
C10_RawCitationCount ==
    (op = "oa_CountCitations" /\ ~returnDefault /\ pc = "done") =>
        ret = Len(cites)

-----------------------------------------------------------------------------
(* The functions main calls, each as one value *)

RECURSIVE WorksLoop(_, _, _, _)
\* lines 359-362 run to the end of oaWorksDFs: relevantWorksDFs, or the
\* exception of the first iteration that raises
WorksLoop(reference, done, handed, frames) ==
    LET rows == SelectOaIdTitle(works)
        df == NextFrame(rows, done)
        matched == StandardizeAndMatch(df, "title", Column(reference, "title"),
                                       "oapm_CountCitationsOfArXivPMPapers")
    IN  IF ~HasNextFrame(rows, done, handed) THEN Ok(frames)
        ELSE IF matched.err # NoError THEN matched
        ELSE WorksLoop(reference, done + Len(df), handed + 1,
                       Append(frames, matched.val))

RECURSIVE CitesLoop(_, _, _, _)
\* lines 371-373 run to the end of oaCitesDFs
CitesLoop(worksDF, done, handed, frames) ==
    LET rows == SelectReference(cites)
        df == NextFrame(rows, done)
        IsCited(r) == \E j \in 1..Len(worksDF) : worksDF[j].oa_id = r.reference
    IN  IF ~HasNextFrame(rows, done, handed) THEN Ok(frames)
        ELSE IF "oa_id" \notin worksColumns
        THEN Failed(Raise("KeyError", "oapm_CountCitationsOfArXivPMPapers"))
        ELSE CitesLoop(worksDF, done + Len(df), handed + 1,
                       Append(frames, SelectSeq(df, IsCited)))

\* oapm_CountCitationsOfArXivPMPapers(pmDB, oaDB)
oapm_CountCitationsOfArXivPMPapers ==
    LET arxiv == pm_IdentifyPapersPublishedInArXiv(paper)
        reference == [i \in 1..Len(arxiv.val) |->
                        [arxiv.val[i] EXCEPT !.title = standardizeText(@)]]
        worksFrames == WorksLoop(reference, 0, 0, <<>>)
        citesFrames == CitesLoop(Concat(worksFrames.val), 0, 0, <<>>)
    IN  IF arxiv.err # NoError THEN arxiv
        ELSE IF ApplyRaises(Column(arxiv.val, "title"))
        THEN Failed(Raise("AttributeError", "_standardizeText"))
        ELSE IF "works" \in missing \/ "cites" \in missing
        THEN Failed(QueryError("_createDFGeneratorFromSQL"))
        ELSE IF worksFrames.err # NoError THEN worksFrames
        ELSE IF worksFrames.val = <<>>
        THEN Failed(Raise("ValueError", "oapm_CountCitationsOfArXivPMPapers"))
        ELSE IF citesFrames.err # NoError THEN citesFrames
        ELSE IF citesFrames.val = <<>>
        THEN Failed(Raise("ValueError", "oapm_CountCitationsOfArXivPMPapers"))
        ELSE Ok(ValueCounts(Column(Concat(citesFrames.val), "reference")))

\* The characters urlsplit takes for a scheme
SchemeChars ==
    {LowerLetters[i] : i \in 1..26} \cup {UpperLetters[i] : i \in 1..26}
    \cup {"0","1","2","3","4","5","6","7","8","9","+","-","."}

\* b"": what urlparse(None).netloc is
EmptyBytes == <<"b''">>

\* _extractNetLoc(url): urlparse(url).netloc. The scheme, if the text before
\* the first ":" is one, is split off; the netloc is what follows a leading
\* "//" up to the first "/", "?" or "#".
extractNetLoc(url) ==
    IF url = None THEN EmptyBytes
    ELSE LET colons == {i \in 1..Len(url) : url[i] = ":"}
             colon == IF colons = {} THEN 0
                      ELSE CHOOSE i \in colons : \A j \in colons : i <= j
             hasScheme ==
                 /\ colon > 1
                 /\ url[1] \in SchemeChars \ {"0","1","2","3","4","5","6","7",
                                              "8","9","+","-","."}
                 /\ \A i \in 1..(colon - 1) : url[i] \in SchemeChars
             rest == IF hasScheme THEN SubSeq(url, colon + 1, Len(url))
                     ELSE url
             ends == {i \in 3..Len(rest) : rest[i] \in {"/", "?", "#"}}
             end == IF ends = {} THEN Len(rest) + 1
                    ELSE CHOOSE i \in ends : \A j \in ends : i <= j
         IN  IF Len(rest) >= 2 /\ rest[1] = "/" /\ rest[2] = "/"
             THEN SubSeq(rest, 3, end - 1)
             ELSE <<>>

\* pm_CountPapersPerJournal(pmDB): value_counts(sort=True, dropna=False)
pm_CountPapersPerJournal ==
    IF "paper" \in missing THEN Failed(QueryError("_createDFFromSQL"))
    ELSE LET netlocs == [i \in 1..Len(paper) |-> extractNetLoc(paper[i].url)]
         IN  Ok([v \in {netlocs[i] : i \in 1..Len(netlocs)} |->
                    Cardinality({i \in 1..Len(netlocs) : netlocs[i] = v})])

-----------------------------------------------------------------------------
(* main *)

\* The statistics in the order main computes and prints them
StatOrder ==
    <<"oa_CountPapersByDOI", "oa_CountPapersByOAID", "oa_CountCitations",
      "oa_ProportionOfValidPapers", "pm_CountPapersByID",
      "pm_CountPapersPerJournal", "oapm_CountPMArXivPapersInOA",
      "oapm_CountCitationsOfArXivPMPapers">>

\* The call main makes for its k-th statistic, given the lines printed so
\* far; main passes no returnDefault, so the functions that take one return
\* their pre-computed value
Statistic(k, lines) ==
    CASE k = 1 -> Ok(defaults.OA_DOI_COUNT)
      [] k = 2 -> oa_CountPapersByOAID(TRUE)
      [] k = 3 -> oa_CountCitations(TRUE)
      [] k = 4 -> oa_ProportionOfValidPapers(lines[2].value, lines[1].value)
      [] k = 5 -> pm_CountPapersByID
      [] k = 6 -> pm_CountPapersPerJournal
      [] k = 7 -> Ok(defaults.OAPM_ARXIV_PM_PAPERS_IN_OA)
      [] k = 8 -> oapm_CountCitationsOfArXivPMPapers

\* The lines printed with a line for a statistic whose call raised
PrintedAfter_reportsFailure(lines, k, outcome) ==
    Append(lines, [stat |-> StatOrder[k], value |-> outcome.val])

\* print(...) follows the call it reports: it runs if the call returned
PrintedAfter(lines, k, outcome) ==
    IF outcome.err = NoError
    THEN Append(lines, [stat |-> StatOrder[k], value |-> outcome.val])
    ELSE lines

\* lines 558-565: both paths must be files; connecting reads nothing yet
Main_Connect ==
    /\ op = "main" /\ pc = "start"
    /\ IF "pmPath" \in missing \/ "oaPath" \in missing
       THEN Throw(Raise("AssertionError", "main"))
       ELSE pc' = "loop" /\ UNCHANGED <<ret, err>>
    /\ UNCHANGED <<tables, build, call, loop, printed>>

\* lines 567-615: the next statistic is computed, then printed
Main_Statistic ==
    /\ op = "main" /\ pc = "loop"
    /\ Len(printed) < Len(StatOrder)
    /\ LET k == Len(printed) + 1
           outcome == Statistic(k, printed)
       IN  /\ printed' = PrintedAfter(printed, k, outcome)
           /\ IF outcome.err # NoError
              THEN Throw(outcome.err)
              ELSE UNCHANGED <<pc, ret, err>>
    /\ UNCHANGED <<tables, build, call, loop>>

\* main returns after its last print
Main_Exit ==
    /\ op = "main" /\ pc = "loop"
    /\ Len(printed) = Len(StatOrder)
    /\ pc' = "done"
    /\ UNCHANGED <<tables, build, call, loop, ret, err, printed>>

MaxDefault == 1

InitMain ==
    /\ NotStarted
    /\ op = "main" /\ arg = None /\ returnDefault = TRUE
    /\ defaults \in {[UnitDefaults EXCEPT !.OA_OAID_COUNT = n] :
                        n \in 0..MaxDefault}
    /\ worksColumns = DeclaredColumns
    /\ chunkSize \in 1..MaxWorks
    /\ missing \in {{}} \cup {{x} : x \in {"pmPath", "oaPath", "paper",
                                            "model_to_paper", "works",
                                            "cites"}}
    /\ paper \in IF "paper" \in missing THEN {<<>>}
                 ELSE Tables({[title |-> TitleA, url |-> URLArxiv1],
                              [title |-> TitleA, url |-> None]}, MaxPapers)
    /\ modelToPaper = IF "model_to_paper" \in missing THEN <<>>
                      ELSE <<[paper_id |-> <<"P1">>]>>
    /\ works \in IF "works" \in missing THEN {<<>>}
                 ELSE Tables({[oa_id |-> <<"W1">>, doi |-> DOIArxiv1,
                               title |-> TitlePaddedLowerA],
                              [oa_id |-> <<"W2">>, doi |-> DOIArxiv1,
                               title |-> None]}, MaxWorks)
    /\ cites \in IF "cites" \in missing THEN {<<>>} ELSE {<<>>, CitesSample}
    /\ emptyFrame \in IF EmptyResult THEN BOOLEAN ELSE {FALSE}

NextMain ==
    \/ Main_Connect
    \/ Main_Statistic
    \/ Main_Exit

SpecMain == InitMain /\ [][NextMain]_vars

\* C9: main prints the line of a statistic only after its computation
\* returned, in the fixed order; when the computation of the k-th statistic
\* raises, main ends with that error and has printed the k-1 statistics
\* before it and nothing else.
C9_NoPartialReport ==
    op = "main" =>
        /\ Len(printed) <= Len(StatOrder)
        /\ \A k \in 1..Len(printed) :
               LET outcome == Statistic(k, SubSeq(printed, 1, k - 1))
               IN  /\ printed[k].stat = StatOrder[k]
                   /\ outcome.err = NoError
                   /\ printed[k].value = outcome.val
        /\ pc = "done" => Len(printed) = Len(StatOrder)
        /\ (pc = "failed" /\ err # Raise("AssertionError", "main")) =>
               /\ Len(printed) < Len(StatOrder)
               /\ Statistic(Len(printed) + 1, printed).err = err
        /\ (pc = "failed" /\ err = Raise("AssertionError", "main")) =>
               printed = <<>>

\* C9 witness: the fifth statistic raised after four lines were printed
C9_Witness ==
    /\ op = "main" /\ pc = "failed"
    /\ Len(printed) = 4
    /\ err = Raise("OperationalError", "_runOneValueSQLQuery")

-----------------------------------------------------------------------------
(* SpecMatch: the two chunked matches, each called once *)

InitMatch ==
    /\ NotStarted
    /\ arg = None
    /\ modelToPaper = <<>>
    /\ defaults = UnitDefaults
    /\ missing = {}
    /\ chunkSize \in 1..MaxWorks
    /\ op \in {"oapm_CountPMArXivPapersInOA",
               "oapm_CountCitationsOfArXivPMPapers"}
    /\ IF op = "oapm_CountPMArXivPapersInOA"
       THEN /\ returnDefault \in BOOLEAN
            /\ paper \in
                 IF returnDefault THEN {<<>>}
                 ELSE Tables(PaperRows({TitleA}, {URLArxiv1, URLArxivA, None}),
                             MaxPapers)
            /\ works \in
                 IF returnDefault THEN {<<>>}
                 ELSE Tables(WorkRows({<<"W1">>},
                                      {DOIArxiv1, DOIPaddedUpper,
                                       DOIArxivLowerA, None},
                                      {TitleA}), MaxWorks)
            /\ cites = <<>>
            /\ worksColumns \in
                 {DeclaredColumns, ColumnsRenamed("doi", "DOI")}
       ELSE /\ returnDefault = FALSE
            /\ paper \in Tables({[title |-> TitleA, url |-> URLArxiv1],
                                 [title |-> None, url |-> URLArxiv1],
                                 [title |-> TitleA, url |-> URLOther]},
                                MaxPapers)
            /\ works \in Tables({[oa_id |-> <<"W1">>, doi |-> DOIArxiv1,
                                  title |-> TitlePaddedLowerA],
                                 [oa_id |-> <<"W2">>, doi |-> DOIArxiv1,
                                  title |-> TitleC],
                                 [oa_id |-> <<"W2">>, doi |-> DOIArxiv1,
                                  title |-> TitleA],
                                 [oa_id |-> <<"W2">>, doi |-> DOIArxiv1,
                                  title |-> None]}, MaxWorks)
            /\ cites \in {<<>>, CitesSample}
            /\ worksColumns \in
                 {DeclaredColumns, ColumnsRenamed("title", "Title")}
    /\ emptyFrame \in IF EmptyResult THEN BOOLEAN ELSE {FALSE}

NextMatch ==
    \/ CountPMArXivPapersInOA_Start
    \/ CountPMArXivPapersInOA_Chunk
    \/ CountPMArXivPapersInOA_Return
    \/ CountCitations_Start
    \/ CountCitations_WorksChunk
    \/ CountCitations_ConcatWorks
    \/ CountCitations_CitesChunk
    \/ CountCitations_Return

SpecMatch == InitMatch /\ [][NextMatch]_vars

\* The chunk loops of oapm_CountCitationsOfArXivPMPapers, taken step by
\* step, end as the function taken as one value does
CountCitations_StepsAgree ==
    (op = "oapm_CountCitationsOfArXivPMPapers" /\ pc \in {"done", "failed"}) =>
        LET whole == oapm_CountCitationsOfArXivPMPapers
        IN  /\ whole.err = err
            /\ pc = "done" => whole.val = ret

\* The doi rows the match streams, and the rows among the first n of them
\* whose standardized doi is a url of arxivPMDF
DoiRows == SelectDistinctDoi(works)

MatchingDoiRows(n) ==
    {i \in 1..n :
        /\ DoiRows[i].doi # None
        /\ \E j \in 1..Len(pmDF) :
               pmDF[j].url = standardizeText(DoiRows[i].doi)}

CountingDois == op = "oapm_CountPMArXivPapersInOA" /\ ~returnDefault

\* C1: the count of oapm_CountPMArXivPapersInOA does not depend on the chunk
\* size: after any number of chunks it is the number of matching rows among
\* the rows streamed so far, and the value returned is the number of
\* matching rows of the whole sequence.
C1_ChunkInvariantCount ==
    /\ (CountingDois /\ pc = "loop") =>
           count = Cardinality(MatchingDoiRows(pos))
    /\ (CountingDois /\ pc = "done") =>
           /\ pos = Len(DoiRows)
           /\ ret = Cardinality(MatchingDoiRows(Len(DoiRows)))

\* C1 witness: a count of at least one returned after more than one chunk,
\* with a row that does not match among them
C1_Witness ==
    /\ CountingDois /\ pc = "done"
    /\ yielded >= 2 /\ ret >= 1 /\ ret < Len(DoiRows)

\* C2: a row is counted iff its standardized doi equals the standardized
\* derived DOI of some PeaTMOSS arXiv paper.
C2_BothSidesNormalized ==
    (CountingDois /\ pc = "done") =>
        ret = Cardinality(
                {i \in 1..Len(DoiRows) :
                    \E j \in 1..Len(pmDF) :
                        standardizeText(pmDF[j].url)
                            = standardizeText(DoiRows[i].doi)})

\* C3: a row with a null key does not stop the match: the operation
\* completes, and the rows with a key are matched as if it were absent.
C3_NullKeysDropped ==
    /\ (CountingDois /\ "doi" \in worksColumns /\ yielded >= 1) =>
           /\ pc # "failed"
           /\ pc = "done" =>
                  ret = Cardinality(MatchingDoiRows(Len(DoiRows)))
    /\ (op = "oapm_CountCitationsOfArXivPMPapers"
            /\ "title" \in worksColumns /\ yielded >= 1) =>
           err # Raise("AttributeError", "_standardizeText")

\* C8: a chunk without the key column ends the match with an error at that
\* chunk: no later chunk is fetched, nothing is counted or kept, and no
\* value is returned.
C8_MissingColumnAborts ==
    /\ (CountingDois /\ "doi" \notin worksColumns /\ yielded >= 1) =>
           /\ pc = "failed"
           /\ err = Raise("KeyError", "oapm_CountPMArXivPapersInOA")
           /\ yielded = 1 /\ count = 0 /\ ret = NoValue
    /\ (op = "oapm_CountCitationsOfArXivPMPapers"
            /\ "title" \notin worksColumns /\ yielded >= 1) =>
           /\ pc = "failed"
           /\ err = Raise("KeyError", "oapm_CountCitationsOfArXivPMPapers")
           /\ yielded = 1 /\ relevantWorksDFs = <<>> /\ citesYielded = 0
           /\ ret = NoValue

\* C8 witness: the works loop of the citation tally failed at its first
\* chunk although the stream holds more rows
C8_Witness ==
    /\ op = "oapm_CountCitationsOfArXivPMPapers"
    /\ "title" \notin worksColumns
    /\ pc = "failed" /\ yielded = 1 /\ pos < Len(works)

-----------------------------------------------------------------------------
(* The citation tally of oapm_CountCitationsOfArXivPMPapers *)

TallyingCitations == op = "oapm_CountCitationsOfArXivPMPapers"

\* The standardized titles of the PeaTMOSS arXiv papers
ArxivTitles ==
    LET arxiv == pm_IdentifyPapersPublishedInArXiv(paper).val
    IN  {standardizeText(arxiv[j].title) : j \in 1..Len(arxiv)}

\* The ids of the works rows whose standardized title is one of them
MatchedWorkIds ==
    {works[i].oa_id : i \in {k \in 1..Len(works) :
                                /\ works[k].title # None
                                /\ standardizeText(works[k].title)
                                       \in ArxivTitles}}

\* The cites rows with reference = w
CitationsOf(w) == {k \in 1..Len(cites) : cites[k].reference = w}

\* The cites rows among the first n whose reference is a matched work
RetainedCites(n) == {k \in 1..n : cites[k].reference \in MatchedWorkIds}

RECURSIVE SumOfValues(_)
SumOfValues(tally) ==
    IF DOMAIN tally = {} THEN 0
    ELSE LET w == CHOOSE v \in DOMAIN tally : TRUE
         IN  tally[w]
               + SumOfValues([v \in DOMAIN tally \ {w} |-> tally[v]])

\* C11: the tally oapm_CountCitationsOfArXivPMPapers returns is raw and does
\* not depend on the chunk size: after any number of cites chunks the rows
\* kept are the streamed rows whose reference is a matched work; a work id
\* is in the result iff a works row with that id has the standardized title
\* of a PeaTMOSS arXiv paper and some cites row refers to it; its value is
\* the number of cites rows that refer to it, repeated ones included; and
\* the values sum to the number of cites rows kept.
C11_RawCitationTally ==
    /\ (TallyingCitations /\ pc \in {"cites", "done"}) =>
           /\ {oaWorksDF[j].oa_id : j \in 1..Len(oaWorksDF)} = MatchedWorkIds
           /\ Len(Concat(relevantCitesDFs))
                  = Cardinality(RetainedCites(citesPos))
    /\ (TallyingCitations /\ pc = "done") =>
           /\ citesPos = Len(cites)
           /\ DOMAIN ret = {w \in MatchedWorkIds : CitationsOf(w) # {}}
           /\ \A w \in DOMAIN ret : ret[w] = Cardinality(CitationsOf(w))
           /\ SumOfValues(ret) = Len(Concat(relevantCitesDFs))

\* C11 witness: a tally of two works returned after both tables were read
\* in more than one chunk, one work matched by two works rows and cited
\* twice
C11_Witness ==
    /\ TallyingCitations /\ pc = "done"
    /\ yielded >= 2 /\ citesYielded >= 2
    /\ Cardinality(DOMAIN ret) = 2 /\ Len(oaWorksDF) = 3
    /\ \E w \in DOMAIN ret : ret[w] = 2

=============================================================================
